---- MODULE Spec2Model ----
(***************************************************************************)
(* WME Venue Data Crawler v0.2.1: the scan / extraction pipeline of        *)
(* wme-venue-data-crawler-v0.2.1.user.js as a state machine.               *)
(*                                                                         *)
(* JavaScript values are represented as follows.                           *)
(*   - a string is a TLA+ string; null / undefined in a string slot is     *)
(*     the value Null; a property that is undefined on an object is a      *)
(*     field missing from the record's DOMAIN (see Attr);                  *)
(*   - an object is a record holding exactly the properties it has;        *)
(*     null in an object slot is NullObj;                                  *)
(*   - an object reference is a natural number into heap.                  *)
(***************************************************************************)
EXTENDS Naturals, Integers, Sequences, FiniteSets, Bags, TLC

VARIABLES
    heap,                   \* ScanEntry objects by reference
    scannedVenues,          \* state.scannedVenues: venueId -> reference
    extractionInProgress,   \* state.extractionInProgress
    requests,               \* GM_xmlhttpRequest calls awaiting their callback (a bag)
    lastEvent               \* history: the handler that ran last, and on what

vars == <<heap, scannedVenues, extractionInProgress, requests, lastEvent>>

-----------------------------------------------------------------------------
(* Bounds *)

\* cap on simultaneously pending network requests
MaxPending == 3

-----------------------------------------------------------------------------
(* JavaScript helpers *)

Null == "<null>"
NullObj == [null |-> TRUE]

\* obj[f], undefined when the property is not there
Attr(obj, f) == IF f \in DOMAIN obj THEN obj[f] ELSE Null

\* truthiness of a string-or-null value
Truthy(v) == v # Null /\ v # ""

\* v || d
OrElse(v, d) == IF Truthy(v) THEN v ELSE d

\* String.prototype.trim on the strings that occur in the model
WhitespaceOnly == {"", " ", "   "}
Trim(s) ==
    CASE s \in WhitespaceOnly -> ""
      [] s = " Joe's Cafe "   -> "Joe's Cafe"
      [] OTHER                -> s

Range(f) == {f[x] : x \in DOMAIN f}

\* f with key k set to v (Map.prototype.set)
With(f, k, v) == [x \in DOMAIN f \cup {k} |-> IF x = k THEN v ELSE f[x]]

-----------------------------------------------------------------------------
(* Configuration *)

SEVERITY == [COMPLETE |-> 0, MINOR |-> 1, MAJOR |-> 2, CRITICAL |-> 3]

\* variant: the description is a checked field too
REQUIRED_FIELDS_WithDescription ==
    << [field |-> "name",  label |-> "Name"],
       [field |-> "phone", label |-> "Phone"],
       [field |-> "url",   label |-> "Website"],
       [field |-> "description", label |-> "Description"] >>

REQUIRED_FIELDS ==
    << [field |-> "name",  label |-> "Name"],
       [field |-> "phone", label |-> "Phone"],
       [field |-> "url",   label |-> "Website"] >>

EXCLUDED_CATEGORIES ==
    { "RESIDENCE_HOME", "NATURAL_FEATURES", "SCENIC_LOOKOUT_VIEW_POINT", "PARK",
      "JUNCTION_INTERCHANGE", "BRIDGE", "TUNNEL", "ISLAND", "SEA_LAKE_POOL",
      "RIVER_STREAM", "CANAL", "FOREST_GROVE" }

CATEGORY_HINTS ==
    [ SCHOOL |-> "school", CAFE |-> "cafe", COFFEE_SHOP |-> "coffee",
      FOOD_AND_DRINK |-> "restaurant", RESTAURANT |-> "restaurant",
      FAST_FOOD |-> "restaurant", GAS_STATION |-> "gas station",
      CONVENIENCE_STORE |-> "convenience store",
      DOCTOR_CLINIC |-> "medical clinic", HOSPITAL_MEDICAL_CARE |-> "hospital",
      PHARMACY |-> "pharmacy", GARAGE_AUTOMOTIVE_SHOP |-> "auto repair",
      CAR_WASH |-> "car wash", SHOPPING_AND_SERVICES |-> "store",
      DEPARTMENT_STORE |-> "store", GROCERY_STORE |-> "grocery",
      HOTEL |-> "hotel", BANK_FINANCIAL |-> "bank",
      POST_OFFICE |-> "post office", LIBRARY |-> "library",
      GYM_FITNESS |-> "gym", OUTDOORS |-> "outdoor recreation",
      PET_STORE_VETERINARIAN_SERVICES |-> "veterinary", OFFICES |-> "office" ]

-----------------------------------------------------------------------------
(* Utility and location helpers *)

\* variant: a whitespace-only string counts as a value
isEmpty_NoTrim(value) == value = Null \/ value = ""

isEmpty(value) == value = Null \/ Trim(value) = ""

EmptyLocation == [cityName |-> "", stateName |-> "", stateAbbr |-> ""]

\* host is the editor object W (its model.venues, model.cities and
\* model.states, and whether it is ready); host.citiesThrow stands for any exception
\* raised inside the try block (W.model.cities missing, a city without
\* attributes, ...)
\* variant: an exception in the lookup is not turned into the empty context
getVenueLocation_IgnoresThrow(host) ==
    IF Len(host.cities) = 0 THEN EmptyLocation
    ELSE LET city     == host.cities[1]
             cityName == OrElse(Attr(city, "name"), "")
             stateID  == Attr(city, "stateID")
             st       == IF Truthy(stateID) /\ stateID \in DOMAIN host.states
                         THEN host.states[stateID] ELSE NullObj
             stateName == IF st # NullObj THEN st.name ELSE ""
             stateAbbr == IF st # NullObj THEN st.abbreviation ELSE ""
         IN  [cityName |-> cityName, stateName |-> stateName,
              stateAbbr |-> stateAbbr]

getVenueLocation(host) ==
    IF host.citiesThrow THEN EmptyLocation
    ELSE IF Len(host.cities) = 0 THEN EmptyLocation
    ELSE LET city     == host.cities[1]
             cityName == OrElse(Attr(city, "name"), "")
             stateID  == Attr(city, "stateID")
             st       == IF Truthy(stateID) /\ stateID \in DOMAIN host.states
                         THEN host.states[stateID] ELSE NullObj
             stateName == IF st # NullObj THEN st.name ELSE ""
             stateAbbr == IF st # NullObj THEN st.abbreviation ELSE ""
         IN  [cityName |-> cityName, stateName |-> stateName,
              stateAbbr |-> stateAbbr]

getCategoryHint(category) ==
    IF category \in DOMAIN CATEGORY_HINTS THEN CATEGORY_HINTS[category] ELSE ""

\* variant: the hint comes from the first category that has one
buildSearchQuery_AnyCategory(venueName, categories, cityName, stateAbbr) ==
    LET hinted == {i \in DOMAIN categories : Truthy(getCategoryHint(categories[i]))}
        q1 == IF hinted # {}
              THEN venueName \o " " \o
                   getCategoryHint(categories[CHOOSE i \in hinted :
                                                 \A j \in hinted : i <= j])
              ELSE venueName
    IN  IF Truthy(cityName) /\ Truthy(stateAbbr)
        THEN q1 \o " " \o cityName \o " " \o stateAbbr
        ELSE q1

buildSearchQuery(venueName, categories, cityName, stateAbbr) ==
    LET q1 == IF Len(categories) > 0 /\ Truthy(getCategoryHint(categories[1]))
              THEN venueName \o " " \o getCategoryHint(categories[1])
              ELSE venueName
    IN  IF Truthy(cityName) /\ Truthy(stateAbbr)
        THEN q1 \o " " \o cityName \o " " \o stateAbbr
        ELSE q1

-----------------------------------------------------------------------------
(* Web scraping                                                            *)
(*                                                                         *)
(* A page (the html string) is its sequence of elements in document order: *)
(*   [el |-> "script", parse, items]  a <script type="application/ld+json">*)
(*        block; parse is "error" when JSON.parse throws, "object" (items  *)
(*        holds the one object) or "array";                                *)
(*   [el |-> "meta", attr, key, content]  <meta attr="key" content="...">; *)
(*   [el |-> "text", text]            any other text.                      *)
(* A JSON-LD item is a record of the properties it has: type (the @type    *)
(* string as its sequence of words, so that String.includes is membership  *)
(* of a word), telephone, url, address (an object), name.  An item with a  *)
(* field throws stands for one on which the type test raises a TypeError   *)
(* (a null item, a numeric @type).                                         *)
(***************************************************************************)

\* match[0] of phoneRegex on a string, Null when there is no match
PhoneMatch(s) ==
    CASE s = "303-555-0100"            -> "303-555-0100"
      [] s = "Call 303.555.0100 today" -> "303.555.0100"
      [] s = "3035550100"              -> "3035550100"
      [] s = "+1-303-555-0100"         -> "1-303-555-0100"
      [] s = "(303)555-0100"           -> "303)555-0100"
      [] OTHER                         -> Null

\* the strings of an element's raw text, in the order they appear
ItemStrings(item) ==
    << Attr(item, "telephone"), Attr(item, "url"),
       IF "address" \in DOMAIN item THEN Attr(item.address, "streetAddress")
       ELSE Null,
       Attr(item, "name") >>

RECURSIVE ItemsStrings(_)
ItemsStrings(items) ==
    IF items = << >> THEN << >>
    ELSE ItemStrings(Head(items)) \o ItemsStrings(Tail(items))

RawStrings(e) ==
    CASE e.el = "script" -> ItemsStrings(e.items)
      [] e.el = "meta"   -> << e.content >>
      [] e.el = "text"   -> << e.text >>

RECURSIVE FirstPhoneIn(_)
FirstPhoneIn(strs) ==
    IF strs = << >> THEN Null
    ELSE IF Head(strs) # Null /\ PhoneMatch(Head(strs)) # Null
         THEN PhoneMatch(Head(strs))
         ELSE FirstPhoneIn(Tail(strs))

RECURSIVE AllRawStrings(_)
AllRawStrings(elements) ==
    IF elements = << >> THEN << >>
    ELSE RawStrings(Head(elements)) \o AllRawStrings(Tail(elements))

extractPhoneRegex(html) == FirstPhoneIn(AllRawStrings(html))

BusinessTypes == {"LocalBusiness", "Restaurant", "Organization", "Store"}

\* variant: an item qualifies only when it also carries one of telephone,
\* url, address, name
QualifyingType_NeedsField(item) ==
    /\ "type" \in DOMAIN item
    /\ \E i \in DOMAIN item.type : item.type[i] \in BusinessTypes
    /\ DOMAIN item \cap {"telephone", "url", "address", "name"} # {}

\* type && (type.includes('LocalBusiness') || ...)
QualifyingType(item) ==
    /\ "type" \in DOMAIN item
    /\ \E i \in DOMAIN item.type : item.type[i] \in BusinessTypes

SchemaFields(item) ==
    [ phone   |-> OrElse(Attr(item, "telephone"), Null),
      website |-> OrElse(Attr(item, "url"), Null),
      address |-> IF "address" \in DOMAIN item
                  THEN OrElse(Attr(item.address, "streetAddress"), Null)
                  ELSE Null,
      name    |-> OrElse(Attr(item, "name"), Null) ]

\* the for-of loop over one block's items: the fields of the first
\* qualifying item, NullObj when the loop ends or an item throws (the inner
\* catch then continues with the next block)
RECURSIVE SchemaInItems(_)
SchemaInItems(items) ==
    IF items = << >> THEN NullObj
    ELSE IF "throws" \in DOMAIN Head(items) THEN NullObj
    ELSE IF QualifyingType(Head(items)) THEN SchemaFields(Head(items))
    ELSE SchemaInItems(Tail(items))

RECURSIVE extractSchemaOrg(_)
extractSchemaOrg(html) ==
    IF html = << >> THEN NullObj
    ELSE LET e == Head(html)
             r == IF e.el = "script" /\ e.parse # "error"
                  THEN SchemaInItems(e.items) ELSE NullObj
         IN  IF r # NullObj THEN r ELSE extractSchemaOrg(Tail(html))

\* html.match(pattern) for one <meta attr="key" ... content="(...)"> pattern:
\* the content of the first such tag with a non-empty content, else Null
RECURSIVE MetaMatch(_, _, _)
MetaMatch(html, attr, key) ==
    IF html = << >> THEN Null
    ELSE LET e == Head(html)
         IN  IF e.el = "meta" /\ e.attr = attr /\ e.key = key /\ e.content # ""
             THEN e.content
             ELSE MetaMatch(Tail(html), attr, key)

\* for (const pattern of patterns) { if (match && match[1]) { ...; break } }
RECURSIVE FirstPattern(_, _)
FirstPattern(html, patterns) ==
    IF patterns = << >> THEN Null
    ELSE LET m == MetaMatch(html, Head(patterns)[1], Head(patterns)[2])
         IN  IF m # Null THEN m ELSE FirstPattern(html, Tail(patterns))

phonePatterns ==
    << <<"property", "business:contact_data:phone_number">>,
       <<"name", "telephone">>,
       <<"itemprop", "telephone">> >>

websitePatterns == << <<"property", "og:url">>, <<"itemprop", "url">> >>

addressPatterns ==
    << <<"property", "business:contact_data:street_address">>,
       <<"itemprop", "streetAddress">> >>

\* variant: without a phone nothing is returned
extractMicrodata_NullUnlessPhone(html) ==
    LET data == [ phone   |-> FirstPattern(html, phonePatterns),
                  website |-> FirstPattern(html, websitePatterns),
                  address |-> FirstPattern(html, addressPatterns) ]
    IN  IF data.phone = Null THEN NullObj ELSE data

extractMicrodata(html) ==
    LET data == [ phone   |-> FirstPattern(html, phonePatterns),
                  website |-> FirstPattern(html, websitePatterns),
                  address |-> FirstPattern(html, addressPatterns) ]
    IN  IF data.phone = Null /\ data.website = Null /\ data.address = Null
        THEN NullObj ELSE data

extractWithRegex(html) ==
    LET data == [ phone |-> extractPhoneRegex(html), website |-> Null,
                  address |-> Null ]
    IN  IF data.phone = Null THEN NullObj ELSE data

\* { ...a, ...b }: b's properties override a's
Spread(a, b) == b @@ a

\* `method = value` where method was declared with const: in every mode the
\* assignment raises a TypeError and leaves the binding as it was
AssignConstMethod(method, value) == [threw |-> TRUE, method |-> method]

\* variant: a page on which no strategy finds anything is reported as a
\* failure
scrapeOnload_NoneIsError(html, url) ==
    IF extractSchemaOrg(html) # NullObj
    THEN [error |-> FALSE,
          data  |-> Spread(extractSchemaOrg(html),
                           [method |-> "Schema.org", sourceUrl |-> url])]
    ELSE [error |-> TRUE, data |-> NullObj]

\* the onload handler of scrapeWebsite: the arguments it passes to callback
scrapeOnload(html, url) ==
    LET schema == extractSchemaOrg(html)
        method == IF schema # NullObj THEN "Schema.org" ELSE Null
        micro  == IF schema = NullObj THEN extractMicrodata(html) ELSE schema
        asg1   == IF schema = NullObj /\ micro # NullObj
                  THEN AssignConstMethod(method, "Microdata")
                  ELSE [threw |-> FALSE, method |-> method]
        regex  == IF micro = NullObj THEN extractWithRegex(html) ELSE micro
        asg2   == IF micro = NullObj /\ regex # NullObj
                  THEN AssignConstMethod(asg1.method, "Regex")
                  ELSE [threw |-> FALSE, method |-> asg1.method]
    IN  IF asg1.threw \/ asg2.threw
        THEN [error |-> TRUE, data |-> NullObj]
        ELSE IF regex # NullObj
        THEN [error |-> FALSE,
              data  |-> Spread(regex, [method |-> asg2.method, sourceUrl |-> url])]
        ELSE [error |-> FALSE,
              data  |-> [method |-> "None", sourceUrl |-> url]]

-----------------------------------------------------------------------------
(* Venue analysis and scanning *)

RECURSIVE MissingLabels(_, _)
MissingLabels(attrs, fields) ==
    IF fields = << >> THEN << >>
    ELSE (IF isEmpty(Attr(attrs, Head(fields).field))
          THEN << Head(fields).label >> ELSE << >>)
         \o MissingLabels(attrs, Tail(fields))

\* variant: MAJOR only from three missing fields on
analyzeVenue_MajorAt3(venue) ==
    LET attrs          == venue.attributes
        missing        == MissingLabels(attrs, REQUIRED_FIELDS)
        hasPhone       == ~isEmpty(Attr(attrs, "phone"))
        hasWebsite     == ~isEmpty(Attr(attrs, "url"))
        hasContactInfo == hasPhone \/ hasWebsite
        severity       ==
            IF Len(missing) = 0 THEN SEVERITY.COMPLETE
            ELSE IF ~hasContactInfo THEN SEVERITY.CRITICAL
            ELSE IF Len(missing) >= 3 THEN SEVERITY.MAJOR
            ELSE SEVERITY.MINOR
    IN  [severity |-> severity, missing |-> missing,
         hasContactInfo |-> hasContactInfo]

analyzeVenue(venue) ==
    LET attrs          == venue.attributes
        missing        == MissingLabels(attrs, REQUIRED_FIELDS)
        hasPhone       == ~isEmpty(Attr(attrs, "phone"))
        hasWebsite     == ~isEmpty(Attr(attrs, "url"))
        hasContactInfo == hasPhone \/ hasWebsite
        severity       ==
            IF Len(missing) = 0 THEN SEVERITY.COMPLETE
            ELSE IF ~hasContactInfo THEN SEVERITY.CRITICAL
            ELSE IF Len(missing) >= 2 THEN SEVERITY.MAJOR
            ELSE SEVERITY.MINOR
    IN  [severity |-> severity, missing |-> missing,
         hasContactInfo |-> hasContactInfo]

\* venue.attributes.categories || []
CategoriesOf(venue) ==
    IF "categories" \in DOMAIN venue.attributes
    THEN venue.attributes.categories ELSE << >>

\* variant: a name of whitespace only is not taken for a missing name
SkippedByScan_KeepsWhitespaceNames(venue) ==
    \/ venue = NullObj
    \/ venue.type # "venue"
    \/ ~Truthy(Attr(venue.attributes, "name"))
    \/ \E i \in DOMAIN CategoriesOf(venue) :
           CategoriesOf(venue)[i] \in EXCLUDED_CATEGORIES

\* variant: only the primary category is tested against the exclusion list
SkippedByScan_PrimaryCategoryOnly(venue) ==
    \/ venue = NullObj
    \/ venue.type # "venue"
    \/ ~Truthy(Attr(venue.attributes, "name"))
    \/ Trim(venue.attributes.name) = ""
    \/ /\ CategoriesOf(venue) # << >>
       /\ CategoriesOf(venue)[1] \in EXCLUDED_CATEGORIES

\* the three `continue` tests at the top of the scan loop
SkippedByScan(venue) ==
    \/ venue = NullObj
    \/ venue.type # "venue"
    \/ ~Truthy(Attr(venue.attributes, "name"))
    \/ Trim(venue.attributes.name) = ""
    \/ \E i \in DOMAIN CategoriesOf(venue) :
           CategoriesOf(venue)[i] \in EXCLUDED_CATEGORIES

\* the object literal passed to state.scannedVenues.set
NewScanEntry(venue, location) ==
    LET analysis == analyzeVenue(venue)
    IN  [ venue          |-> venue,
          severity       |-> analysis.severity,
          missing        |-> analysis.missing,
          hasContactInfo |-> analysis.hasContactInfo,
          name           |-> OrElse(Attr(venue.attributes, "name"), "Unnamed Venue"),
          categories     |-> CategoriesOf(venue),
          phone          |-> OrElse(Attr(venue.attributes, "phone"), ""),
          url            |-> OrElse(Attr(venue.attributes, "url"), ""),
          address        |-> OrElse(Attr(venue.attributes, "streetName"), ""),
          location       |-> location,
          extracted      |-> NullObj ]

\* allocation of a new object: the first reference not in use
NewRef(hp) ==
    CHOOSE n \in 1..(Cardinality(DOMAIN hp) + 1) :
        n \notin DOMAIN hp /\ \A m \in 1..(n - 1) : m \in DOMAIN hp

\* the for-of loop of scanLoadedVenues over the remaining venues, from the
\* map and heap built so far
RECURSIVE ScanLoop(_, _, _, _)
ScanLoop(venues, location, map, hp) ==
    IF venues = << >> THEN [map |-> map, heap |-> hp]
    ELSE IF SkippedByScan(Head(venues))
    THEN ScanLoop(Tail(venues), location, map, hp)
    ELSE LET ref == NewRef(hp)
         IN  ScanLoop(Tail(venues), location,
                      With(map, Head(venues).attributes.id, ref),
                      With(hp, ref, NewScanEntry(Head(venues), location)))

\* scanLoadedVenues on the editor `host`, starting from map and heap
scanLoadedVenues(host, map, hp) ==
    IF ~host.ready THEN [map |-> map, heap |-> hp]
    ELSE ScanLoop(host.venues, getVenueLocation(host), map, hp)

-----------------------------------------------------------------------------
(* The host editor and the network: what the environment can present *)

VenueIds == {"v1", "v2"}

VJoe ==
    [ type |-> "venue",
      attributes |-> [ id |-> "v1", name |-> "Joe's Cafe", phone |-> "",
                       url |-> "", categories |-> <<"CAFE", "PARKING_LOT">> ] ]
VJoePadded ==
    [ type |-> "venue",
      attributes |-> [ id |-> "v1", name |-> " Joe's Cafe ",
                       phone |-> "303-555-0100", categories |-> <<"OTHER">> ] ]
VUnnamed ==
    [ type |-> "venue",
      attributes |-> [ id |-> "v4", name |-> "   ", phone |-> "555-1234" ] ]
VNoName ==
    [ type |-> "venue",
      attributes |-> [ id |-> "v5", phone |-> "555-1234",
                       categories |-> <<"CAFE">> ] ]
VAcme ==
    [ type |-> "venue",
      attributes |-> [ id |-> "v2", name |-> "Acme Garage", phone |-> "555-1234",
                       url |-> "", categories |-> << >>,
                       streetName |-> "Main St" ] ]
VPark ==
    [ type |-> "venue",
      attributes |-> [ id |-> "v3", name |-> "City Park",
                       categories |-> <<"PLAYGROUND", "PARK">> ] ]
VSegment == [ type |-> "segment", attributes |-> [ id |-> "s1" ] ]

States == [ s8 |-> [name |-> "Colorado", abbreviation |-> "CO"] ]

Denver == [name |-> "Denver", stateID |-> "s8"]
Aurora == [name |-> "Aurora"]

HostReady ==
    { [ready |-> TRUE, venues |-> <<VJoe, VNoName, VAcme>>, citiesThrow |-> FALSE,
       cities |-> <<Denver, Aurora>>, states |-> States],
      [ready |-> TRUE, venues |-> <<VSegment, VJoePadded, VUnnamed, VPark>>,
       citiesThrow |-> FALSE, cities |-> << >>, states |-> States],
      [ready |-> TRUE, venues |-> <<VSegment, VJoePadded, VUnnamed, VPark>>,
       citiesThrow |-> TRUE, cities |-> <<Denver>>, states |-> States] }

HostNotReady ==
    [ready |-> FALSE, venues |-> << >>, citiesThrow |-> TRUE,
     cities |-> << >>, states |-> States]

HostWorlds == HostReady \cup {HostNotReady}

Urls == {"https://joes.example"}

ItemBusiness ==
    [ type |-> <<"FastFood", "Restaurant">>, telephone |-> "(303)555-0100",
      url |-> "https://joes.example", name |-> "Joe's Cafe",
      address |-> [streetAddress |-> "12 Main St"] ]
ItemPerson == [ type |-> <<"Person">>, name |-> "Joe" ]
\* JSON null as an element of a JSON-LD array: item['@type'] throws
ItemNull == [throws |-> TRUE]
ItemStore == [ type |-> <<"Store">>, telephone |-> "+1-303-555-0100" ]
\* a qualifying item with none of telephone, url, address, name
ItemBare == [ type |-> <<"Organization">> ]

PageSchemaAndPhone ==
    << [el |-> "text", text |-> "Call 303.555.0100 today"],
       [el |-> "script", parse |-> "error", items |-> << >>],
       [el |-> "script", parse |-> "array", items |-> <<ItemPerson, ItemBusiness>>] >>
PageMicrodata ==
    << [el |-> "meta", attr |-> "itemprop", key |-> "telephone",
        content |-> "303-555-0100"],
       [el |-> "meta", attr |-> "property", key |-> "og:url",
        content |-> "https://joes.example"] >>
PageRegexOnly ==
    << [el |-> "script", parse |-> "object", items |-> <<ItemPerson>>],
       [el |-> "text", text |-> "3035550100"] >>
PageNothing ==
    << [el |-> "text", text |-> "Welcome"],
       [el |-> "meta", attr |-> "name", key |-> "description",
        content |-> "Best coffee in town"] >>

PageBareSchema ==
    << [el |-> "script", parse |-> "object", items |-> <<ItemBare>>],
       [el |-> "text", text |-> "Call 303.555.0100 today"] >>

Pages ==
    {PageSchemaAndPhone, PageMicrodata, PageRegexOnly, PageNothing,
     PageBareSchema}

-----------------------------------------------------------------------------
(* State *)

\* objects still reachable from the result set or from a pending callback's
\* closure; the others no longer exist for the program
Pending == BagToSet(requests)
LiveRefs == Range(scannedVenues) \cup {r.venueData : r \in Pending}
LiveHeap == [x \in DOMAIN heap \cap LiveRefs |-> heap[x]]

\* objects reachable from pending closures only (what a scan leaves of the
\* heap once state.scannedVenues.clear() has run)
ClosureHeap ==
    [x \in DOMAIN heap \cap {r.venueData : r \in Pending} |-> heap[x]]

EmptyMap == [x \in {} |-> 0]

Init ==
    /\ heap = EmptyMap
    /\ scannedVenues = EmptyMap
    /\ extractionInProgress = {}
    /\ requests = EmptyBag
    /\ lastEvent = [op |-> "init"]

-----------------------------------------------------------------------------
(* Scan button.  The script reads the editor object W only here, so the   *)
(* state of the editor at the time of the click is an input of the click.  *)

\* variant: the previous results are not cleared before the scan
handleScanClick_NoClear(host) ==
    LET result == scanLoadedVenues(host, scannedVenues, LiveHeap)
    IN  /\ scannedVenues' = result.map
        /\ heap' = result.heap
        /\ lastEvent' = [op |-> "scan", host |-> host,
                         before |-> DOMAIN scannedVenues,
                         hadResult |-> {id \in DOMAIN scannedVenues :
                             heap[scannedVenues[id]].extracted # NullObj}]
        /\ UNCHANGED <<extractionInProgress, requests>>

handleScanClick(host) ==
    LET result == scanLoadedVenues(host, EmptyMap, ClosureHeap)
    IN  /\ scannedVenues' = result.map
        /\ heap' = result.heap
        /\ lastEvent' = [op |-> "scan", host |-> host,
                         before |-> DOMAIN scannedVenues,
                         hadResult |-> {id \in DOMAIN scannedVenues :
                             heap[scannedVenues[id]].extracted # NullObj}]
        /\ UNCHANGED <<extractionInProgress, requests>>

-----------------------------------------------------------------------------
(* Extraction *)

\* variant: the in-flight test is missing
AlreadyExtracting_Never(venueId) == FALSE

\* state.extractionInProgress.has(venueId)
AlreadyExtracting(venueId) == venueId \in extractionInProgress

\* variant: the error record is written without the query
WriteSearchError_NoQuery(venueData, query) ==
    [venueData EXCEPT !.extracted = [error |-> "No search results found"]]

\* variant: the error is merged into the previous result instead of
\* replacing it
WriteSearchError_Merge(venueData, query) ==
    [venueData EXCEPT !.extracted =
        IF venueData.extracted = NullObj
        THEN [error |-> "No search results found", searchQuery |-> query]
        ELSE Spread(venueData.extracted,
                    [error |-> "No search results found", searchQuery |-> query])]

\* venueData.extracted = { error: 'No search results found', searchQuery }
WriteSearchError(venueData, query) ==
    [venueData EXCEPT !.extracted =
        [error |-> "No search results found", searchQuery |-> query]]

\* variant: the candidate URL is left out of the error record
WriteScrapeError_NoUrl(venueData, query, websiteUrl) ==
    [venueData EXCEPT !.extracted =
        [error |-> "Failed to fetch website", searchQuery |-> query]]

\* venueData.extracted = { error: 'Failed to fetch website', searchQuery,
\*                         websiteUrl }
WriteScrapeError(venueData, query, websiteUrl) ==
    [venueData EXCEPT !.extracted =
        [error |-> "Failed to fetch website", searchQuery |-> query,
         websiteUrl |-> websiteUrl]]

\* variant: a phone or website that was found is copied into the entry
WriteExtracted_PatchesEntry(venueData, extractedData, query) ==
    [venueData EXCEPT
        !.extracted = Spread(extractedData, [searchQuery |-> query]),
        !.phone = OrElse(Attr(extractedData, "phone"), @),
        !.url = OrElse(Attr(extractedData, "url"), @)]

\* venueData.extracted = { ...extractedData, searchQuery }
WriteExtracted(venueData, extractedData, query) ==
    [venueData EXCEPT !.extracted =
        Spread(extractedData, [searchQuery |-> query])]

\* extractVenueData: `if (!venueData) return`
ExtractNotFound(venueId) ==
    /\ venueId \notin DOMAIN scannedVenues
    /\ heap' = LiveHeap
    /\ lastEvent' = [op |-> "extractNotFound", venueId |-> venueId]
    /\ UNCHANGED <<scannedVenues, extractionInProgress, requests>>

\* variant: a second click restarts the attempt (clears the result and
\* searches again) instead of returning
ExtractAlreadyInProgress_Restart(venueId) ==
    /\ venueId \in DOMAIN scannedVenues
    /\ AlreadyExtracting(venueId)
    /\ BagCardinality(requests) < MaxPending
    /\ LET ref == scannedVenues[venueId]
       IN  /\ heap' = [LiveHeap EXCEPT ![ref].extracted = NullObj]
           /\ requests' = requests (+) SetToBag(
                  {[kind |-> "search", venueId |-> venueId, venueData |-> ref,
                    query |-> heap[ref].name]})
    /\ lastEvent' = [op |-> "extractAlready", venueId |-> venueId]
    /\ UNCHANGED <<scannedVenues, extractionInProgress>>

\* extractVenueData: `if (state.extractionInProgress.has(venueId)) return`
ExtractAlreadyInProgress(venueId) ==
    /\ venueId \in DOMAIN scannedVenues
    /\ AlreadyExtracting(venueId)
    /\ heap' = LiveHeap
    /\ lastEvent' = [op |-> "extractAlready", venueId |-> venueId]
    /\ UNCHANGED <<scannedVenues, extractionInProgress, requests>>

\* variant: starting an attempt resets the entry's previous result
ExtractStart_ClearsResult(venueId) ==
    /\ venueId \in DOMAIN scannedVenues
    /\ ~AlreadyExtracting(venueId)
    /\ BagCardinality(requests) < MaxPending
    /\ LET ref       == scannedVenues[venueId]
           venueData == heap[ref]
           query     == buildSearchQuery(venueData.name, venueData.categories,
                                         venueData.location.cityName,
                                         venueData.location.stateAbbr)
       IN  /\ extractionInProgress' = extractionInProgress \cup {venueId}
           /\ requests' = requests (+) SetToBag(
                  {[kind |-> "search", venueId |-> venueId, venueData |-> ref,
                    query |-> query]})
           /\ lastEvent' = [op |-> "extractStart", venueId |-> venueId,
                            venueData |-> ref, query |-> query]
           /\ heap' = [LiveHeap EXCEPT ![ref].extracted = NullObj]
    /\ UNCHANGED <<scannedVenues>>

\* variant: the search query is the venue name alone
ExtractStart_NameOnlyQuery(venueId) ==
    /\ venueId \in DOMAIN scannedVenues
    /\ ~AlreadyExtracting(venueId)
    /\ BagCardinality(requests) < MaxPending
    /\ LET ref       == scannedVenues[venueId]
           query     == heap[ref].name
       IN  /\ extractionInProgress' = extractionInProgress \cup {venueId}
           /\ requests' = requests (+) SetToBag(
                  {[kind |-> "search", venueId |-> venueId, venueData |-> ref,
                    query |-> query]})
           /\ lastEvent' = [op |-> "extractStart", venueId |-> venueId,
                            venueData |-> ref, query |-> query]
    /\ heap' = LiveHeap
    /\ UNCHANGED <<scannedVenues>>

\* extractVenueData: mark in flight, build the query, issue googleSearch
ExtractStart(venueId) ==
    /\ venueId \in DOMAIN scannedVenues
    /\ ~AlreadyExtracting(venueId)
    /\ BagCardinality(requests) < MaxPending
    /\ LET ref       == scannedVenues[venueId]
           venueData == heap[ref]
           query     == buildSearchQuery(venueData.name, venueData.categories,
                                         venueData.location.cityName,
                                         venueData.location.stateAbbr)
       IN  /\ extractionInProgress' = extractionInProgress \cup {venueId}
           /\ requests' = requests (+) SetToBag(
                  {[kind |-> "search", venueId |-> venueId, venueData |-> ref,
                    query |-> query]})
           /\ lastEvent' = [op |-> "extractStart", venueId |-> venueId,
                            venueData |-> ref, query |-> query]
    /\ heap' = LiveHeap
    /\ UNCHANGED <<scannedVenues>>

extractVenueData(venueId) ==
    \/ ExtractNotFound(venueId)
    \/ ExtractAlreadyInProgress(venueId)
    \/ ExtractStart(venueId)

\* variant: the in-flight marker is dropped as soon as the search returns
SearchOnloadFound_ClearsMarker(venueId, resultUrl) ==
    \E r \in Pending :
    /\ r.venueId = venueId
    /\ r.kind = "search"
    /\ requests' = (requests (-) SetToBag({r})) (+) SetToBag(
           {[kind |-> "scrape", venueId |-> r.venueId,
             venueData |-> r.venueData, query |-> r.query,
             url |-> resultUrl]})
    /\ lastEvent' = [op |-> "searchFound", venueId |-> r.venueId,
                     venueData |-> r.venueData, query |-> r.query,
                     url |-> resultUrl]
    /\ heap' = LiveHeap
    /\ extractionInProgress' = extractionInProgress \ {r.venueId}
    /\ UNCHANGED <<scannedVenues>>

\* googleSearch onload, a result link matched: callback(null, resultUrl),
\* which calls scrapeWebsite
SearchOnloadFound(venueId, resultUrl) ==
    \E r \in Pending :
    /\ r.venueId = venueId
    /\ r.kind = "search"
    /\ requests' = (requests (-) SetToBag({r})) (+) SetToBag(
           {[kind |-> "scrape", venueId |-> r.venueId,
             venueData |-> r.venueData, query |-> r.query,
             url |-> resultUrl]})
    /\ lastEvent' = [op |-> "searchFound", venueId |-> r.venueId,
                     venueData |-> r.venueData, query |-> r.query,
                     url |-> resultUrl]
    /\ heap' = LiveHeap
    /\ UNCHANGED <<scannedVenues, extractionInProgress>>

\* googleSearch calls callback(error, null): onload without a result link or
\* whose parsing throws ("noResults"), or onerror
SearchFailureReasons == {"noResults", "onerror"}

SearchFails(venueId, reason) ==
    \E r \in Pending :
    /\ r.venueId = venueId
    /\ r.kind = "search"
    /\ heap' = [LiveHeap EXCEPT ![r.venueData] =
                   WriteSearchError(heap[r.venueData], r.query)]
    /\ extractionInProgress' = extractionInProgress \ {r.venueId}
    /\ requests' = requests (-) SetToBag({r})
    /\ lastEvent' = [op |-> "searchFails", reason |-> reason,
                     venueId |-> r.venueId, venueData |-> r.venueData,
                     query |-> r.query,
                     before |-> heap[r.venueData].extracted]
    /\ UNCHANGED <<scannedVenues>>

\* the search request reaches its 10 s timeout: googleSearch registers no
\* ontimeout handler, so nothing of the script runs and the request is gone
SearchTimeout(venueId) ==
    \E r \in Pending :
    /\ r.venueId = venueId
    /\ r.kind = "search"
    /\ requests' = requests (-) SetToBag({r})
    /\ lastEvent' = [op |-> "searchTimeout", venueId |-> r.venueId,
                     venueData |-> r.venueData, query |-> r.query,
                     before |-> heap[r.venueData].extracted]
    /\ heap' = LiveHeap
    /\ UNCHANGED <<scannedVenues, extractionInProgress>>

\* scrapeWebsite onload with the page html, then the callback of
\* extractVenueData
ScrapeOnload(venueId, html) ==
    \E r \in Pending :
    /\ r.venueId = venueId
    /\ r.kind = "scrape"
    /\ LET cb == scrapeOnload(html, r.url)
       IN  /\ heap' = [LiveHeap EXCEPT ![r.venueData] =
                          IF cb.error
                          THEN WriteScrapeError(heap[r.venueData], r.query, r.url)
                          ELSE WriteExtracted(heap[r.venueData], cb.data, r.query)]
           /\ extractionInProgress' = extractionInProgress \ {r.venueId}
           /\ requests' = requests (-) SetToBag({r})
           /\ lastEvent' = [op |-> "scrapeOnload", venueId |-> r.venueId,
                            venueData |-> r.venueData, query |-> r.query,
                            url |-> r.url, html |-> html,
                            before |-> heap[r.venueData].extracted]
    /\ UNCHANGED <<scannedVenues>>

\* variant: the failure is written to every entry instead of the entry of
\* the attempt
ScrapeFails_WritesAll(venueId, reason) ==
    \E r \in Pending :
    /\ r.venueId = venueId
    /\ r.kind = "scrape"
    /\ heap' = [x \in DOMAIN LiveHeap |->
                   WriteScrapeError(heap[x], r.query, r.url)]
    /\ extractionInProgress' = extractionInProgress \ {r.venueId}
    /\ requests' = requests (-) SetToBag({r})
    /\ lastEvent' = [op |-> "scrapeFails", reason |-> reason,
                     venueId |-> r.venueId, venueData |-> r.venueData,
                     query |-> r.query, url |-> r.url,
                     before |-> heap[r.venueData].extracted]
    /\ UNCHANGED <<scannedVenues>>

\* scrapeWebsite onerror / ontimeout: callback(error, null)
ScrapeFailureReasons == {"onerror", "ontimeout"}

ScrapeFails(venueId, reason) ==
    \E r \in Pending :
    /\ r.venueId = venueId
    /\ r.kind = "scrape"
    /\ heap' = [LiveHeap EXCEPT ![r.venueData] =
                   WriteScrapeError(heap[r.venueData], r.query, r.url)]
    /\ extractionInProgress' = extractionInProgress \ {r.venueId}
    /\ requests' = requests (-) SetToBag({r})
    /\ lastEvent' = [op |-> "scrapeFails", reason |-> reason,
                     venueId |-> r.venueId, venueData |-> r.venueData,
                     query |-> r.query, url |-> r.url,
                     before |-> heap[r.venueData].extracted]
    /\ UNCHANGED <<scannedVenues>>

\* the network answers a pending request of venueId in one of the ways it can
Respond(venueId) ==
    \/ \E u \in Urls : SearchOnloadFound(venueId, u)
    \/ \E reason \in SearchFailureReasons : SearchFails(venueId, reason)
    \/ SearchTimeout(venueId)
    \/ \E html \in Pages : ScrapeOnload(venueId, html)
    \/ \E reason \in ScrapeFailureReasons : ScrapeFails(venueId, reason)

-----------------------------------------------------------------------------
(* Specifications *)

Next ==
    \/ \E host \in HostWorlds : handleScanClick(host)
    \/ \E venueId \in VenueIds : extractVenueData(venueId)
    \/ \E venueId \in VenueIds : Respond(venueId)

Spec == Init /\ [][Next]_vars

\* every pending request is eventually answered (onload, onerror or its
\* timeout): the request timeout guarantees an answer
FairSpec == Spec /\ \A venueId \in VenueIds : WF_vars(Respond(venueId))

-----------------------------------------------------------------------------
TypeOK ==
    /\ DOMAIN scannedVenues \subseteq VenueIds
    /\ Range(scannedVenues) \subseteq DOMAIN heap
    /\ extractionInProgress \subseteq VenueIds
    /\ IsABag(requests)
    /\ \A r \in Pending : r.venueData \in DOMAIN heap

-----------------------------------------------------------------------------
(* Properties of the extraction orchestrator *)

\* number of pending requests (search or page fetch) that belong to venueId
PendingFor(venueId) ==
    BagCardinality([r \in {x \in Pending : x.venueId = venueId} |-> requests[r]])

ExtractOps == {"extractNotFound", "extractAlready", "extractStart"}

\* the ExtractionResult on the ScanEntry object the last handler worked on
\* (the venueData its closure captured)
LastExtracted == heap[lastEvent.venueData].extracted

\* the strategies of the content extractor, on the page of the last onload
LastSchema == extractSchemaOrg(lastEvent.html)
LastMicro  == extractMicrodata(lastEvent.html)
LastRegex  == extractWithRegex(lastEvent.html)

\* C1: in every reachable state at most one extraction sequence (a pending
\* search request or a pending page fetch) is in flight per venue identity.
C1_AtMostOneSequencePerIdentity ==
    \A venueId \in VenueIds : PendingFor(venueId) <= 1

\* C1 witness: sequences of two distinct identities overlap, one waiting for
\* its search and the other for its page.
C1_Witness ==
    /\ \A venueId \in VenueIds : PendingFor(venueId) = 1
    /\ \E r1, r2 \in Pending : r1.kind = "search" /\ r2.kind = "scrape"

\* C2: a step in which extractVenueData is invoked for an identity that is in
\* the in-flight set changes neither the result set, nor that identity's
\* entry, nor the in-flight set, nor the pending requests.
C2_ReinvokeIsNoOp ==
    [][ (lastEvent'.op \in ExtractOps
            /\ lastEvent'.venueId \in extractionInProgress)
        => /\ scannedVenues' = scannedVenues
           /\ \A id \in DOMAIN scannedVenues :
                  heap'[scannedVenues'[id]] = heap[scannedVenues[id]]
           /\ extractionInProgress' = extractionInProgress
           /\ requests' = requests ]_vars

\* C2 witness: extractVenueData has just returned at the in-progress test
\* while the identity's first sequence is still pending.
C2_Witness ==
    /\ lastEvent.op = "extractAlready"
    /\ lastEvent.venueId \in extractionInProgress
    /\ PendingFor(lastEvent.venueId) = 1

\* C3 (as claimed): every identity that is in the in-flight set is eventually
\* removed from it, whatever the network answers.
C3_EveryAttemptTerminates ==
    \A venueId \in VenueIds :
        (venueId \in extractionInProgress) ~> (venueId \notin extractionInProgress)

\* C4 (as claimed): after the search request timed out the entry holds an
\* error result with the query, no page fetch is pending and the in-flight
\* marker is cleared.
C4_SearchTimeoutRecordsError ==
    lastEvent.op = "searchTimeout"
    => /\ "error" \in DOMAIN LastExtracted
       /\ Attr(LastExtracted, "searchQuery") = lastEvent.query
       /\ PendingFor(lastEvent.venueId) = 0
       /\ lastEvent.venueId \notin extractionInProgress

\* C5: after the search came back without a result link or with a transport
\* error, the entry's result is exactly {error: "No search results found",
\* searchQuery: query}, no request of that identity is pending and the
\* in-flight marker is cleared.
C5_SearchFailureRecordsError ==
    lastEvent.op = "searchFails"
    => /\ LastExtracted = [error |-> "No search results found",
                           searchQuery |-> lastEvent.query]
       /\ PendingFor(lastEvent.venueId) = 0
       /\ lastEvent.venueId \notin extractionInProgress

\* C5 witness: a search has just failed on the entry the result set holds,
\* and the error carries the query built for that entry.
C5_Witness ==
    /\ lastEvent.op = "searchFails"
    /\ lastEvent.reason = "noResults"
    /\ lastEvent.venueId \in DOMAIN scannedVenues
    /\ scannedVenues[lastEvent.venueId] = lastEvent.venueData
    /\ LastExtracted.searchQuery = "Joe's Cafe cafe Denver CO"

\* C6: after the page fetch failed or timed out, the entry's result is an
\* error record with the query and the candidate URL, no request of that
\* identity is pending and the in-flight marker is cleared.
C6_FetchFailureRecordsError ==
    lastEvent.op = "scrapeFails"
    => /\ "error" \in DOMAIN LastExtracted
       /\ Attr(LastExtracted, "searchQuery") = lastEvent.query
       /\ Attr(LastExtracted, "websiteUrl") = lastEvent.url
       /\ PendingFor(lastEvent.venueId) = 0
       /\ lastEvent.venueId \notin extractionInProgress

\* C6 witness: a page fetch has just timed out and the candidate URL is on
\* the error record.
C6_Witness ==
    /\ lastEvent.op = "scrapeFails"
    /\ lastEvent.reason = "ontimeout"
    /\ LastExtracted.websiteUrl \in Urls

\* C7 (as claimed): after the page loaded, a strategy that succeeded leaves a
\* success record tagged with that strategy: Schema.org, else Microdata with
\* the meta-tag fields, else Regex with the matched phone.
C7_SuccessTaggedWithStrategy ==
    lastEvent.op = "scrapeOnload"
    => /\ LastSchema # NullObj
          => /\ "error" \notin DOMAIN LastExtracted
             /\ Attr(LastExtracted, "method") = "Schema.org"
       /\ (LastSchema = NullObj /\ LastMicro # NullObj)
          => /\ "error" \notin DOMAIN LastExtracted
             /\ Attr(LastExtracted, "method") = "Microdata"
             /\ Attr(LastExtracted, "phone") = LastMicro.phone
             /\ Attr(LastExtracted, "website") = LastMicro.website
             /\ Attr(LastExtracted, "address") = LastMicro.address
       /\ (LastSchema = NullObj /\ LastMicro = NullObj /\ LastRegex # NullObj)
          => /\ "error" \notin DOMAIN LastExtracted
             /\ Attr(LastExtracted, "method") = "Regex"
             /\ Attr(LastExtracted, "phone") = LastRegex.phone

\* the first strategy that succeeds on a page, with what it returned
FirstSuccess(html) ==
    IF extractSchemaOrg(html) # NullObj
    THEN [method |-> "Schema.org", data |-> extractSchemaOrg(html)]
    ELSE IF extractMicrodata(html) # NullObj
    THEN [method |-> "Microdata", data |-> extractMicrodata(html)]
    ELSE IF extractWithRegex(html) # NullObj
    THEN [method |-> "Regex", data |-> extractWithRegex(html)]
    ELSE [method |-> "None", data |-> NullObj]

\* C8 (as claimed): the stored result is the one of the first strategy, in
\* the order structured-data, embedded metadata, pattern-match, that
\* succeeds on the page: its tag and exactly its fields.
C8_FirstSuccessDeterminesResult ==
    (lastEvent.op = "scrapeOnload" /\ FirstSuccess(lastEvent.html).method # "None")
    => LET first == FirstSuccess(lastEvent.html)
       IN  /\ Attr(LastExtracted, "method") = first.method
           /\ \A f \in DOMAIN first.data :
                  Attr(LastExtracted, f) = first.data[f]

\* C9: after the page loaded and all three strategies returned null, the
\* stored result is the "None" outcome with the source URL and the query, no
\* extracted field and no error field.
C9_NothingFoundIsNone ==
    (lastEvent.op = "scrapeOnload"
        /\ LastSchema = NullObj /\ LastMicro = NullObj /\ LastRegex = NullObj)
    => LastExtracted = [method |-> "None", sourceUrl |-> lastEvent.url,
                        searchQuery |-> lastEvent.query]

\* C9 witness: a page without structured data, meta tags or phone text has
\* just been loaded.
C9_Witness ==
    /\ lastEvent.op = "scrapeOnload"
    /\ lastEvent.html = PageNothing
    /\ "error" \notin DOMAIN LastExtracted
    /\ LastExtracted.method = "None"

TerminalOps == {"searchFails", "scrapeFails", "scrapeOnload"}

\* C10: after the terminal outcome of an attempt the entry's result holds only
\* what that attempt produced: an error record has no field of an earlier
\* success, a success record has no field of an earlier error, and every
\* extracted field comes from the page this attempt loaded.
C10_RetryReplacesResult ==
    lastEvent.op \in TerminalOps
    => LET e == LastExtracted
       IN  /\ e # NullObj
           /\ Attr(e, "searchQuery") = lastEvent.query
           /\ lastEvent.op = "searchFails"
              => DOMAIN e = {"error", "searchQuery"}
           /\ (lastEvent.op = "scrapeFails"
                 \/ (lastEvent.op = "scrapeOnload" /\ "error" \in DOMAIN e))
              => /\ DOMAIN e = {"error", "searchQuery", "websiteUrl"}
                 /\ e.websiteUrl = lastEvent.url
           /\ (lastEvent.op = "scrapeOnload" /\ "error" \notin DOMAIN e)
              => LET first == FirstSuccess(lastEvent.html)
                 IN  /\ e.sourceUrl = lastEvent.url
                     /\ DOMAIN e \subseteq
                            {"method", "sourceUrl", "searchQuery"}
                            \cup (IF first.data = NullObj THEN {}
                                  ELSE DOMAIN first.data)
                     /\ \A f \in DOMAIN e \ {"method", "sourceUrl", "searchQuery"} :
                            e[f] = first.data[f]

\* C10 witness: a retry has just ended in a search error on an entry whose
\* earlier attempt had found a phone, and the phone is gone.
C10_Witness ==
    /\ lastEvent.op = "searchFails"
    /\ "phone" \in DOMAIN lastEvent.before
    /\ lastEvent.before.phone # Null
    /\ "phone" \notin DOMAIN LastExtracted

-----------------------------------------------------------------------------
(* Extraction against the result set *)

\* the handlers that make up an extraction sequence
SequenceOps ==
    {"extractStart", "searchFound", "searchFails", "searchTimeout",
     "scrapeOnload", "scrapeFails"}

\* C11 (as claimed): when a sequence has reached its terminal outcome, the
\* result it produced is on the ScanEntry the result set holds for that
\* identity, whatever scans ran while the search or the fetch was pending.
C11_ResultStoredOnResultSetEntry ==
    (lastEvent.op \in TerminalOps /\ lastEvent.venueId \in DOMAIN scannedVenues)
    => /\ heap[scannedVenues[lastEvent.venueId]].extracted # NullObj
       /\ heap[scannedVenues[lastEvent.venueId]].extracted = LastExtracted

\* C12: a step of the sequence of identity A leaves the result set's entry
\* of every other identity B, and every entry object a sequence of B works
\* on, as it was.
C12_SequenceWritesOnlyOwnEntry ==
    [][ lastEvent'.op \in SequenceOps
        => /\ \A id \in DOMAIN scannedVenues \ {lastEvent'.venueId} :
                  /\ id \in DOMAIN scannedVenues'
                  /\ scannedVenues'[id] = scannedVenues[id]
                  /\ heap'[scannedVenues'[id]] = heap[scannedVenues[id]]
           /\ \A r \in Pending :
                  r.venueId # lastEvent'.venueId
                  => heap'[r.venueData] = heap[r.venueData] ]_vars

\* C12 witness: the sequence of v1 has just stored a result while the
\* sequence of v2 is pending, and the entry of v2 still has the result of
\* its own earlier attempt.
C12_Witness ==
    /\ lastEvent.op = "scrapeFails"
    /\ lastEvent.venueId = "v1"
    /\ PendingFor("v2") = 1
    /\ "v2" \in DOMAIN scannedVenues
    /\ "method" \in DOMAIN heap[scannedVenues["v2"]].extracted

-----------------------------------------------------------------------------
(* analyzeVenue on its own: one call on a venue object, then its return   *)

\* the attribute values a venue object is given here: null, the empty
\* string, a whitespace-only string, or a value
AnalyzeSamples ==
    [name |-> "Joe's Cafe", phone |-> "303-555-0100",
     url |-> "https://joes.example", description |-> "Nice place",
     houseNumber |-> "12"]

AnalyzeValues(f) == {Null, "", "   ", AnalyzeSamples[f]}

\* venue objects: every attribute is absent or has one of its values
AnalyzeVenues ==
    { [id |-> "v1", attributes |-> a] :
        a \in { b \in UNION { [D -> UNION {AnalyzeValues(f) : f \in DOMAIN AnalyzeSamples}] :
                              D \in SUBSET DOMAIN AnalyzeSamples } :
                /\ \A f \in DOMAIN b : b[f] \in AnalyzeValues(f)
                /\ "houseNumber" \in DOMAIN b => b.houseNumber = "12" } }

InitAnalyze ==
    /\ heap = EmptyMap
    /\ scannedVenues = EmptyMap
    /\ extractionInProgress = {}
    /\ requests = EmptyBag
    /\ \E venue \in AnalyzeVenues :
           lastEvent = [op |-> "analyzeVenue:call", venue |-> venue]

AnalyzeReturn ==
    /\ lastEvent.op = "analyzeVenue:call"
    /\ lastEvent' = [op |-> "analyzeVenue", venue |-> lastEvent.venue,
                     result |-> analyzeVenue(lastEvent.venue)]
    /\ UNCHANGED <<heap, scannedVenues, extractionInProgress, requests>>

NextAnalyze == AnalyzeReturn

SpecAnalyze == InitAnalyze /\ [][NextAnalyze]_vars

\* the field is absent, null, empty or whitespace-only
EmptyField(venue, f) ==
    \/ f \notin DOMAIN venue.attributes
    \/ venue.attributes[f] \in {Null, "", " ", "   "}

CheckedFields == <<"name", "phone", "url">>

NumMissing(venue) ==
    Cardinality({i \in 1..3 : EmptyField(venue, CheckedFields[i])})

ContactPresent(venue) ==
    ~EmptyField(venue, "phone") \/ ~EmptyField(venue, "url")

\* C13: the severity analyzeVenue returns follows the decision table:
\* COMPLETE when nothing is missing, CRITICAL when something is missing and
\* neither phone nor website is present, MAJOR when two or more are missing
\* and a contact field is present, MINOR when exactly one is missing and a
\* contact field is present.
C13_SeverityDecisionTable ==
    lastEvent.op = "analyzeVenue"
    => LET v == lastEvent.venue
           n == NumMissing(v)
           c == ContactPresent(v)
           s == lastEvent.result.severity
       IN  /\ n = 0 => s = 0
           /\ (n > 0 /\ ~c) => s = 3
           /\ (n >= 2 /\ c) => s = 2
           /\ (n = 1 /\ c) => s = 1

\* C13 witness: a venue without a name and without a phone but with a
\* website has been analyzed (the MAJOR row).
C13_Witness ==
    /\ lastEvent.op = "analyzeVenue"
    /\ EmptyField(lastEvent.venue, "name")
    /\ EmptyField(lastEvent.venue, "phone")
    /\ ~EmptyField(lastEvent.venue, "url")
    /\ lastEvent.result.severity = 2

\* the labels of the empty checked fields from position i on
RECURSIVE ExpectedMissing(_, _)
ExpectedMissing(venue, i) ==
    IF i > 3 THEN << >>
    ELSE (IF EmptyField(venue, CheckedFields[i])
          THEN << <<"Name", "Phone", "Website">>[i] >> ELSE << >>)
         \o ExpectedMissing(venue, i + 1)

\* C14: the missing list is exactly the labels of the empty checked fields
\* in the order Name, Phone, Website, and hasContactInfo is true exactly
\* when phone or website is non-empty.
C14_MissingListAndContactInfo ==
    lastEvent.op = "analyzeVenue"
    => /\ lastEvent.result.missing = ExpectedMissing(lastEvent.venue, 1)
       /\ lastEvent.result.hasContactInfo = ContactPresent(lastEvent.venue)

\* C14 witness: a venue with a whitespace-only name, a phone and no url
\* attribute has been analyzed.
C14_Witness ==
    /\ lastEvent.op = "analyzeVenue"
    /\ Attr(lastEvent.venue.attributes, "name") = "   "
    /\ "url" \notin DOMAIN lastEvent.venue.attributes
    /\ lastEvent.result.missing = <<"Name", "Website">>
    /\ lastEvent.result.hasContactInfo

SameEmptiness(v, w) ==
    \A i \in 1..3 : EmptyField(v, CheckedFields[i]) = EmptyField(w, CheckedFields[i])

\* C15: any venue that agrees with the analyzed one on the emptiness of
\* name, phone and website gets the same AnalysisResult, whatever its
\* other attributes are (and so does the same venue analyzed again).
C15_ResultDependsOnlyOnCheckedFields ==
    lastEvent.op = "analyzeVenue"
    => \A w \in AnalyzeVenues :
           SameEmptiness(lastEvent.venue, w)
           => analyzeVenue(w) = lastEvent.result

\* C15 witness: a venue with a description and a house number has been
\* analyzed, and a venue without either agrees with it on the three
\* checked fields.
C15_Witness ==
    /\ lastEvent.op = "analyzeVenue"
    /\ Attr(lastEvent.venue.attributes, "description") = "Nice place"
    /\ "houseNumber" \in DOMAIN lastEvent.venue.attributes
    /\ lastEvent.result.missing = <<"Phone">>
    /\ \E w \in AnalyzeVenues :
           /\ SameEmptiness(lastEvent.venue, w)
           /\ DOMAIN w.attributes \cap {"description", "houseNumber"} = {}

-----------------------------------------------------------------------------
(* Properties of the scan *)

\* a venue-type record with a name that is non-empty after trimming and no
\* category of the exclusion list
Eligible(venue) ==
    /\ venue.type = "venue"
    /\ "name" \in DOMAIN venue.attributes
    /\ venue.attributes.name \notin {Null, "", " ", "   "}
    /\ "categories" \in DOMAIN venue.attributes
       => \A i \in DOMAIN venue.attributes.categories :
              venue.attributes.categories[i] \notin EXCLUDED_CATEGORIES

\* the identities of the eligible venues the editor presents
EligibleIds(host) ==
    IF host.ready
    THEN {host.venues[i].attributes.id :
              i \in {j \in DOMAIN host.venues : Eligible(host.venues[j])}}
    ELSE {}

\* C16: after a scan, a venue record of the editor has a ScanEntry if and
\* only if it is eligible; a venue that is not eligible is on no entry at
\* all.
C16_EntryIffEligible ==
    (lastEvent.op = "scan" /\ lastEvent.host.ready)
    => \A i \in DOMAIN lastEvent.host.venues :
           LET venue == lastEvent.host.venues[i]
               id    == venue.attributes.id
           IN  /\ Eligible(venue)
                  <=> /\ id \in DOMAIN scannedVenues
                      /\ heap[scannedVenues[id]].venue = venue
               /\ ~Eligible(venue)
                  => \A ref \in DOMAIN heap : heap[ref].venue # venue

\* C16 witness: a scan has run over a segment, a venue with a padded name,
\* a venue with a whitespace-only name and a venue with an excluded second
\* category, and stored the one that is eligible.
C16_Witness ==
    /\ lastEvent.op = "scan"
    /\ lastEvent.host.ready
    /\ lastEvent.host.venues = <<VSegment, VJoePadded, VUnnamed, VPark>>
    /\ DOMAIN scannedVenues = {"v1"}

\* C17: after a scan through the scan handler the result set holds exactly
\* the eligible venues of the editor, every entry has a null
\* ExtractionResult, and no entry is an object an earlier scan created
\* (one that a pending callback still holds).
C17_ScanIsFullReplacement ==
    lastEvent.op = "scan"
    => /\ DOMAIN scannedVenues = EligibleIds(lastEvent.host)
       /\ \A id \in DOMAIN scannedVenues :
              /\ heap[scannedVenues[id]].extracted = NullObj
              /\ \E i \in DOMAIN lastEvent.host.venues :
                     heap[scannedVenues[id]].venue = lastEvent.host.venues[i]
              /\ \A r \in Pending : r.venueData # scannedVenues[id]

\* C17 witness: a scan has replaced a result set that held v1 with a
\* result and v2, by one that holds only v1, while a callback for v1 is
\* still pending.
C17_Witness ==
    /\ lastEvent.op = "scan"
    /\ lastEvent.host.ready
    /\ lastEvent.before = {"v1", "v2"}
    /\ "v1" \in lastEvent.hadResult
    /\ DOMAIN scannedVenues = {"v1"}
    /\ PendingFor("v1") = 1

\* C18 (as claimed): a scan triggered while the editor is not ready leaves
\* the result set that existed before as it was.
C18_NotReadyScanKeepsResultSet ==
    (lastEvent.op = "scan" /\ ~lastEvent.host.ready)
    => DOMAIN scannedVenues = lastEvent.before

-----------------------------------------------------------------------------
(* buildSearchQuery on its own: one call, then its return *)

QueryNames == {"Joe's Cafe", "Jo's Caffe", "Acme Garage"}

QueryCategories ==
    { << >>, <<"CAFE">>, <<"OTHER">>, <<"OTHER", "CAFE">>,
      <<"GAS_STATION", "PARK">>, <<"CAFE", "GAS_STATION">> }

\* location.cityName is a string; location.stateAbbr is undefined when the
\* state object has no abbreviation
QueryCities == {"", "Denver"}
QueryStateAbbrs == {"", Null, "CO"}

InitQuery ==
    /\ heap = EmptyMap
    /\ scannedVenues = EmptyMap
    /\ extractionInProgress = {}
    /\ requests = EmptyBag
    /\ \E venueName \in QueryNames, categories \in QueryCategories,
          cityName \in QueryCities, stateAbbr \in QueryStateAbbrs :
           lastEvent = [op |-> "buildSearchQuery:call",
                        venueName |-> venueName, categories |-> categories,
                        cityName |-> cityName, stateAbbr |-> stateAbbr]

QueryReturn ==
    /\ lastEvent.op = "buildSearchQuery:call"
    /\ lastEvent' = [lastEvent EXCEPT !.op = "buildSearchQuery"] @@
                    [query |-> buildSearchQuery(lastEvent.venueName,
                                                lastEvent.categories,
                                                lastEvent.cityName,
                                                lastEvent.stateAbbr)]
    /\ UNCHANGED <<heap, scannedVenues, extractionInProgress, requests>>

NextQuery == QueryReturn

SpecQuery == InitQuery /\ [][NextQuery]_vars

\* the hints of the category tags used above
ExpectedHint == [CAFE |-> "cafe", GAS_STATION |-> "gas station"]

RECURSIVE JoinWithSpaces(_)
JoinWithSpaces(segments) ==
    IF Len(segments) = 1 THEN segments[1]
    ELSE segments[1] \o " " \o JoinWithSpaces(Tail(segments))

\* C19: the query is the space-joined sequence of the name, the hint of the
\* first category tag when that tag has one, and "city stateAbbr" when both
\* are non-empty; absent segments contribute nothing.
C19_QueryIsJoinedSegments ==
    lastEvent.op = "buildSearchQuery"
    => LET cats == lastEvent.categories
           hint == IF cats # << >> /\ cats[1] \in DOMAIN ExpectedHint
                   THEN << ExpectedHint[cats[1]] >> ELSE << >>
           loc  == IF lastEvent.cityName \notin {Null, ""}
                      /\ lastEvent.stateAbbr \notin {Null, ""}
                   THEN << lastEvent.cityName \o " " \o lastEvent.stateAbbr >>
                   ELSE << >>
       IN  /\ lastEvent.query
                = JoinWithSpaces(<< lastEvent.venueName >> \o hint \o loc)
           /\ (hint = << >> /\ loc = << >>)
              => lastEvent.query = lastEvent.venueName

\* C19 witness: a query has been built for a venue whose second tag only
\* has a hint, with a city and a state abbreviation: name and location.
C19_Witness ==
    /\ lastEvent.op = "buildSearchQuery"
    /\ lastEvent.categories = <<"OTHER", "CAFE">>
    /\ lastEvent.query = "Jo's Caffe Denver CO"

\* C19 second case: city without state abbreviation, no category: the name
\* alone.
C19_WitnessNameAlone ==
    /\ lastEvent.op = "buildSearchQuery"
    /\ lastEvent.categories = << >>
    /\ lastEvent.cityName = "Denver"
    /\ lastEvent.stateAbbr = Null
    /\ lastEvent.query = "Acme Garage"

-----------------------------------------------------------------------------
(* What extraction leaves alone *)

\* the entry without its ExtractionResult
ScanPart(entry) == [f \in DOMAIN entry \ {"extracted"} |-> entry[f]]

\* C20: a step of extractVenueData or of one of its callbacks changes
\* nothing of any entry but its `extracted` field: venue, severity, missing,
\* hasContactInfo, name, categories, phone, url, address and location stay
\* as the scan computed them.
C20_ExtractionMutatesOnlyExtracted ==
    [][ lastEvent'.op \in SequenceOps \cup {"extractNotFound", "extractAlready"}
        => \A ref \in DOMAIN heap' :
               /\ ref \in DOMAIN heap
               /\ DOMAIN heap'[ref] = DOMAIN heap[ref]
               /\ ScanPart(heap'[ref]) = ScanPart(heap[ref]) ]_vars

\* C20 witness: the page fetch for a venue without phone and website has
\* succeeded and found a phone; the entry is still CRITICAL, still lists
\* Phone as missing and still has the empty phone the scan copied.
C20_Witness ==
    /\ lastEvent.op = "scrapeOnload"
    /\ LET entry == heap[lastEvent.venueData]
       IN  /\ Truthy(Attr(entry.extracted, "phone"))
           /\ entry.phone = ""
           /\ entry.missing = <<"Phone", "Website">>
           /\ entry.severity = 3
           /\ ~entry.hasContactInfo

-----------------------------------------------------------------------------
(* The query a result is tagged with *)

\* C21: every ExtractionResult stored on an entry, whether an error, a
\* success or "None", carries as searchQuery the query built from the
\* name, categories and location stored on that entry.
C21_ResultTaggedWithEntryQuery ==
    \A ref \in DOMAIN heap :
        heap[ref].extracted # NullObj
        => /\ "searchQuery" \in DOMAIN heap[ref].extracted
           /\ heap[ref].extracted.searchQuery
                = buildSearchQuery(heap[ref].name, heap[ref].categories,
                                   heap[ref].location.cityName,
                                   heap[ref].location.stateAbbr)

\* C21 witness: the result set holds a Schema.org success for Joe's Cafe
\* tagged with the query with hint and location, and a search error for
\* Acme Garage tagged with its own query.
C21_Witness ==
    /\ DOMAIN scannedVenues = {"v1", "v2"}
    /\ Attr(heap[scannedVenues["v1"]].extracted, "method") = "Schema.org"
    /\ Attr(heap[scannedVenues["v1"]].extracted, "searchQuery")
         = "Joe's Cafe cafe Denver CO"
    /\ Attr(heap[scannedVenues["v2"]].extracted, "error")
         = "No search results found"
    /\ Attr(heap[scannedVenues["v2"]].extracted, "searchQuery")
         = "Acme Garage Denver CO"

-----------------------------------------------------------------------------
(* The severity levels as the documentation gives them *)

\* C22 (as claimed): with contact info, one or two missing fields give
\* Minor Issues and Major Issues needs three or more missing fields;
\* Critical is exactly the venues without contact information.
C22_DocumentedSeverityLevels ==
    lastEvent.op = "analyzeVenue"
    => LET n == NumMissing(lastEvent.venue)
           c == ContactPresent(lastEvent.venue)
           s == lastEvent.result.severity
       IN  /\ (c /\ n \in {1, 2}) => s = 1
           /\ s = 2 => (c /\ n >= 3)
           /\ s = 3 <=> ~c

-----------------------------------------------------------------------------
(* The content extractors on their own: the onload handler of             *)
(* scrapeWebsite receives a page, the three extractors and the handler     *)
(* are applied to it                                                       *)

MaxElements == 3

ScriptElements ==
    { [el |-> "script", parse |-> "error", items |-> << >>],
      [el |-> "script", parse |-> "object", items |-> <<ItemPerson>>],
      [el |-> "script", parse |-> "object", items |-> <<ItemBare>>],
      [el |-> "script", parse |-> "object", items |-> <<ItemBusiness>>],
      [el |-> "script", parse |-> "array", items |-> <<ItemPerson, ItemStore>>],
      [el |-> "script", parse |-> "array", items |-> <<ItemNull, ItemStore>>] }

MetaElements ==
    { [el |-> "meta", attr |-> "property",
       key |-> "business:contact_data:phone_number", content |-> "303-555-0100"],
      [el |-> "meta", attr |-> "name", key |-> "telephone",
       content |-> "3035550100"],
      [el |-> "meta", attr |-> "itemprop", key |-> "telephone", content |-> ""],
      [el |-> "meta", attr |-> "property", key |-> "og:url",
       content |-> "https://joes.example"],
      [el |-> "meta", attr |-> "itemprop", key |-> "url",
       content |-> "https://joes.example/about"],
      [el |-> "meta", attr |-> "itemprop", key |-> "streetAddress",
       content |-> "12 Main St"],
      [el |-> "meta", attr |-> "name", key |-> "description",
       content |-> "Best coffee in town"] }

TextElements ==
    { [el |-> "text", text |-> "Call 303.555.0100 today"],
      [el |-> "text", text |-> "Welcome"] }

PageElements == ScriptElements \cup MetaElements \cup TextElements

ExtractPages == UNION { [1..n -> PageElements] : n \in 0..MaxElements }

InitExtract ==
    /\ heap = EmptyMap
    /\ scannedVenues = EmptyMap
    /\ extractionInProgress = {}
    /\ requests = EmptyBag
    /\ \E html \in ExtractPages :
           lastEvent = [op |-> "scrapeWebsite:onload", html |-> html]

ExtractReturn ==
    /\ lastEvent.op = "scrapeWebsite:onload"
    /\ \E url \in Urls :
           lastEvent' = [op |-> "scrapeWebsite", html |-> lastEvent.html,
                         url      |-> url,
                         schema   |-> extractSchemaOrg(lastEvent.html),
                         micro    |-> extractMicrodata(lastEvent.html),
                         regex    |-> extractWithRegex(lastEvent.html),
                         callback |-> scrapeOnload(lastEvent.html, url)]
    /\ UNCHANGED <<heap, scannedVenues, extractionInProgress, requests>>

NextExtract == ExtractReturn

SpecExtract == InitExtract /\ [][NextExtract]_vars

\* the items of the parseable structured-data blocks, in document order
RECURSIVE ParseableItems(_)
ParseableItems(html) ==
    IF html = << >> THEN << >>
    ELSE (IF Head(html).el = "script" /\ Head(html).parse # "error"
          THEN Head(html).items ELSE << >>)
         \o ParseableItems(Tail(html))

\* the declared type contains LocalBusiness, Restaurant, Organization or
\* Store
Qualifies(item) ==
    /\ "type" \in DOMAIN item
    /\ Range(item.type) \cap
         {"LocalBusiness", "Restaurant", "Organization", "Store"} # {}

FieldsOf(item) ==
    [ phone   |-> Attr(item, "telephone"),
      website |-> Attr(item, "url"),
      address |-> IF "address" \in DOMAIN item
                  THEN Attr(item.address, "streetAddress") ELSE Null,
      name    |-> Attr(item, "name") ]

FirstQualifying(items) ==
    LET q == {i \in DOMAIN items : Qualifies(items[i])}
    IN  IF q = {} THEN NullObj
        ELSE FieldsOf(items[CHOOSE i \in q : \A j \in q : i <= j])

\* C23 (as claimed): extractSchemaOrg returns the fields of the first
\* qualifying item in document order over all elements of all parseable
\* blocks, and null only when no such item qualifies.
C23_FirstQualifyingItemInDocumentOrder ==
    lastEvent.op = "scrapeWebsite"
    => lastEvent.schema = FirstQualifying(ParseableItems(lastEvent.html))

\* the positions of the meta tags one pattern matches
MetaHits(html, pattern) ==
    {i \in DOMAIN html :
        /\ html[i].el = "meta"
        /\ html[i].attr = pattern[1]
        /\ html[i].key = pattern[2]
        /\ html[i].content # ""}

\* the first tag of the first pattern of the list that matches anything
ExpectedMeta(html, patterns) ==
    LET hit == {p \in DOMAIN patterns : MetaHits(html, patterns[p]) # {}}
    IN  IF hit = {} THEN Null
        ELSE LET p == CHOOSE x \in hit : \A y \in hit : x <= y
                 tags == MetaHits(html, patterns[p])
             IN  html[CHOOSE i \in tags : \A j \in tags : i <= j].content

\* C24: extractMicrodata finds phone, website and address each through its
\* own pattern list, the first pattern that matches winning; a field
\* without match is null; the result is null exactly when all three are.
C24_MicrodataFieldsIndependent ==
    lastEvent.op = "scrapeWebsite"
    => LET html    == lastEvent.html
           phone   == ExpectedMeta(html, phonePatterns)
           website == ExpectedMeta(html, websitePatterns)
           address == ExpectedMeta(html, addressPatterns)
       IN  IF phone = Null /\ website = Null /\ address = Null
           THEN lastEvent.micro = NullObj
           ELSE lastEvent.micro =
                    [phone |-> phone, website |-> website, address |-> address]

\* C24 witness: a page with the generic telephone tag before the
\* contact-data phone tag and a street address, no website tag: the
\* contact-data phone wins, the website is null.
C24_Witness ==
    /\ lastEvent.op = "scrapeWebsite"
    /\ Len(lastEvent.html) = 3
    /\ lastEvent.html[1].el = "meta"
    /\ lastEvent.html[1].key = "telephone"
    /\ lastEvent.html[1].content = "3035550100"
    /\ lastEvent.micro = [phone |-> "303-555-0100", website |-> Null,
                          address |-> "12 Main St"]

\* C30: when the first qualifying structured-data item of the fetched page
\* carries none of telephone, url, address and name, the stored result is a
\* Schema.org success with the four fields null; the phone the page text
\* holds is not picked up by a later strategy.
C30_BareSchemaItemIsSuccess ==
    (/\ lastEvent.op = "scrapeOnload"
     /\ FirstQualifying(ParseableItems(lastEvent.html))
          = [phone |-> Null, website |-> Null, address |-> Null, name |-> Null])
    => heap[lastEvent.venueData].extracted
         = [phone |-> Null, website |-> Null, address |-> Null, name |-> Null,
            method |-> "Schema.org", sourceUrl |-> lastEvent.url,
            searchQuery |-> lastEvent.query]

\* C30 witness: the fetched page has a bare Organization item and a phone
\* in its text, which the pattern-match strategy would find, and the stored
\* result is the Schema.org one.
C30_Witness ==
    /\ lastEvent.op = "scrapeOnload"
    /\ lastEvent.html = PageBareSchema
    /\ extractWithRegex(lastEvent.html) # NullObj
    /\ extractWithRegex(lastEvent.html).phone = "303.555.0100"
    /\ heap[lastEvent.venueData].extracted.method = "Schema.org"
    /\ heap[lastEvent.venueData].extracted.phone = Null

-----------------------------------------------------------------------------
(* Order of the steps of one attempt *)

\* no entry's ExtractionResult changes in the step
NoResultWritten ==
    \A ref \in DOMAIN heap' :
        ref \in DOMAIN heap /\ heap'[ref].extracted = heap[ref].extracted

\* C25: an attempt starts by issuing exactly one search request; a page
\* fetch is issued only by the step in which the search returned a URL, in
\* place of the search request and for that URL; a result is written only
\* by a step that consumes the failed search or the completed fetch, and
\* that same step removes the in-flight marker; no other step of an
\* attempt writes a result or removes a marker.
C25_StepsOfAttemptOrdered ==
    [][ LET e     == lastEvent'
            added == BagToSet(requests') \ Pending
        IN  /\ e.op = "extractStart"
               => /\ PendingFor(e.venueId) = 0
                  /\ requests' = requests (+) SetToBag(
                         {[kind |-> "search", venueId |-> e.venueId,
                           venueData |-> e.venueData, query |-> e.query]})
            /\ (\E r \in added : r.kind = "search") => e.op = "extractStart"
            /\ (\E r \in added : r.kind = "scrape")
               => /\ e.op = "searchFound"
                  /\ \E r \in Pending :
                         /\ r.kind = "search"
                         /\ r.venueId = e.venueId
                         /\ requests' = (requests (-) SetToBag({r})) (+)
                                SetToBag({[kind |-> "scrape",
                                           venueId |-> r.venueId,
                                           venueData |-> r.venueData,
                                           query |-> r.query, url |-> e.url]})
            /\ e.op = "searchFound" => \E r \in added : r.kind = "scrape"
            /\ e.op \in TerminalOps
               => /\ \E r \in Pending :
                         /\ r.venueId = e.venueId
                         /\ r.venueData = e.venueData
                         /\ r.kind = IF e.op = "searchFails"
                                     THEN "search" ELSE "scrape"
                         /\ requests' = requests (-) SetToBag({r})
                  /\ heap'[e.venueData].extracted # NullObj
                  /\ e.venueId \in extractionInProgress
                  /\ extractionInProgress' = extractionInProgress \ {e.venueId}
            /\ e.op \in (SequenceOps \cup {"extractNotFound", "extractAlready"})
                           \ TerminalOps
               => /\ NoResultWritten
                  /\ extractionInProgress \subseteq extractionInProgress'
            /\ \A id \in VenueIds : PendingFor(id)' <= 1 ]_vars

\* C25 witness: the fetch that followed the search of v1 has completed:
\* the request is gone, the result is written and the marker is removed,
\* while v2 is still between search and fetch.
C25_Witness ==
    /\ lastEvent.op = "scrapeOnload"
    /\ lastEvent.venueId = "v1"
    /\ PendingFor("v1") = 0
    /\ "v1" \notin extractionInProgress
    /\ heap[lastEvent.venueData].extracted # NullObj
    /\ "v2" \in extractionInProgress
    /\ \E r \in Pending : r.venueId = "v2" /\ r.kind = "scrape"

-----------------------------------------------------------------------------
(* The location context of a scan *)

\* C26: the entries of the result set all carry one location context, the
\* one of the scan that made them; a scan with no city loaded, or whose
\* lookup throws, still stores its entries, with three empty strings as
\* context; and a query built for an entry with that context has no
\* location segment.
C26_OneLocationContextPerScan ==
    /\ \A id1, id2 \in DOMAIN scannedVenues :
           heap[scannedVenues[id1]].location = heap[scannedVenues[id2]].location
    /\ (lastEvent.op = "scan" /\ lastEvent.host.ready
          /\ (lastEvent.host.citiesThrow \/ lastEvent.host.cities = << >>))
       => /\ DOMAIN scannedVenues = EligibleIds(lastEvent.host)
          /\ \A id \in DOMAIN scannedVenues :
                 heap[scannedVenues[id]].location
                   = [cityName |-> "", stateName |-> "", stateAbbr |-> ""]
    /\ (lastEvent.op = "extractStart"
          /\ heap[lastEvent.venueData].location.cityName = ""
          /\ heap[lastEvent.venueData].location.stateAbbr = "")
       => LET entry == heap[lastEvent.venueData]
          IN  \/ lastEvent.query = entry.name
              \/ /\ entry.categories # << >>
                 /\ entry.categories[1] \in DOMAIN CATEGORY_HINTS
                 /\ lastEvent.query
                      = entry.name \o " " \o CATEGORY_HINTS[entry.categories[1]]

\* C26 witness: a scan whose location lookup threw, although a city is
\* loaded, has stored its eligible venue with the empty context.
C26_Witness ==
    /\ lastEvent.op = "scan"
    /\ lastEvent.host.ready
    /\ lastEvent.host.citiesThrow
    /\ lastEvent.host.cities # << >>
    /\ DOMAIN scannedVenues = {"v1"}
    /\ heap[scannedVenues["v1"]].location.cityName = ""

\* C26, the query: an attempt has started for an entry with the empty
\* context and its query is the name alone.
C26_WitnessQuery ==
    /\ lastEvent.op = "extractStart"
    /\ heap[lastEvent.venueData].location.cityName = ""
    /\ lastEvent.query = " Joe's Cafe "

-----------------------------------------------------------------------------
(* The in-flight set, the stored severities, and retries *)

\* C27 (as claimed): every identity of the in-flight set has a ScanEntry in
\* the result set.
C27_InFlightHasEntry ==
    extractionInProgress \subseteq DOMAIN scannedVenues

\* C28: no stored entry is MAJOR or lists Name as missing: an entry is
\* COMPLETE with nothing missing, MINOR with exactly one of phone and
\* website missing, or CRITICAL with both missing.
C28_NoMajorNoMissingName ==
    \A ref \in DOMAIN heap :
        LET entry == heap[ref]
        IN  /\ entry.severity # 2
            /\ \A i \in DOMAIN entry.missing : entry.missing[i] # "Name"
            /\ \/ entry.severity = 0 /\ entry.missing = << >>
               \/ entry.severity = 1
                  /\ entry.missing \in {<<"Phone">>, <<"Website">>}
               \/ entry.severity = 3
                  /\ entry.missing = <<"Phone", "Website">>

\* C28 witness: a scan over a CRITICAL venue, a venue without name but with
\* a phone, and a MINOR venue has stored the first and the last.
C28_Witness ==
    /\ lastEvent.op = "scan"
    /\ lastEvent.host.venues = <<VJoe, VNoName, VAcme>>
    /\ DOMAIN scannedVenues = {"v1", "v2"}
    /\ heap[scannedVenues["v1"]].severity = 3
    /\ heap[scannedVenues["v2"]].severity = 1
    /\ heap[scannedVenues["v2"]].missing = <<"Website">>

\* C29: starting an attempt leaves the entry's ExtractionResult as it was,
\* and on every step other than a scan the entry of an attempt that is
\* still in flight after the step keeps the ExtractionResult it had.
C29_PriorResultKeptWhileInFlight ==
    [][ /\ lastEvent'.op = "extractStart"
           => heap'[lastEvent'.venueData].extracted
                = heap[lastEvent'.venueData].extracted
        /\ lastEvent'.op # "scan"
           => \A r \in Pending :
                  (\E q \in BagToSet(requests') :
                       q.venueId = r.venueId /\ q.venueData = r.venueData)
                  => heap'[r.venueData].extracted = heap[r.venueData].extracted
      ]_vars

\* C29 witness: a retry for v1 has got its search result and is fetching
\* the page, and the entry still shows the search error of the attempt
\* before.
C29_Witness ==
    /\ lastEvent.op = "searchFound"
    /\ lastEvent.venueId = "v1"
    /\ "v1" \in extractionInProgress
    /\ Attr(heap[lastEvent.venueData].extracted, "error")
         = "No search results found"

====
